---------------------------- MODULE Spec2Model ----------------------------
(***************************************************************************)
(* mt5-optimize-report: analyze.py (batch driver), parser.py (ingestion)   *)
(* and report.py (analysis engine and the report page's script).           *)
(*                                                                         *)
(* Numbers.  Python and JavaScript compute in binary floating point with   *)
(* round-to-nearest-even.  A number is held here as an integer count of    *)
(* ticks of 2^-FracBits and carries at most MantBits significant bits      *)
(* (IEEE double: 53); every arithmetic result is rounded to that format.   *)
(* A cell or a float is a record [t, v]: t = "num" with the value v in     *)
(* ticks, "nan" (float NaN), "none" (Python None) or "str" (a string that  *)
(* is no number).                                                          *)
(***************************************************************************)
EXTENDS Integers, Sequences, FiniteSets, TLC

\* ------------------------------------------------------------------ bounds
MantBits == 4
FracBits == 8
MaxRows == 3

\* ------------------------------------------------------- floating point
RECURSIVE Pow2(_)
Pow2(n) == IF n = 0 THEN 1 ELSE 2 * Pow2(n - 1)

One == Pow2(FracBits)

Abs(x) == IF x < 0 THEN -x ELSE x

Sgn(x) == IF x < 0 THEN -1 ELSE 1

\* Spacing of the representable numbers around a magnitude of n ticks.
RECURSIVE Ulp(_)
Ulp(n) == IF n < Pow2(MantBits) THEN 1 ELSE 2 * Ulp(n \div 2)

\* a / c rounded to the nearest integer, ties to even (a >= 0, c > 0).
RoundHalfEven(a, c) ==
    LET f == a \div c
        r == a % c
    IN  IF 2 * r < c THEN f
        ELSE IF 2 * r > c THEN f + 1
        ELSE f + (f % 2)

\* The representable number nearest to num / den ticks (den > 0).
RN(num, den) ==
    LET a == Abs(num)
        u == Ulp(a \div den)
    IN  Sgn(num) * u * RoundHalfEven(a, den * u)

\* The float a decimal literal n/d denotes (0.30 is Lit(30, 100)).
Lit(n, d) == RN(n * One, d)

fadd(x, y) == RN(x + y, 1)
fsub(x, y) == RN(x - y, 1)
fmul(x, y) == RN(x * y, One)
fdiv(x, y) == RN(Sgn(y) * x * One, Abs(y))

RECURSIVE ISqrt(_)
ISqrt(n) ==
    IF n < 2 THEN n
    ELSE LET r == 2 * ISqrt(n \div 4)
         IN  IF (r + 1) * (r + 1) <= n THEN r + 1 ELSE r

\* sqrt(x), correctly rounded (x >= 0 ticks).
fsqrt(x) ==
    LET n == x * One
        u == Ulp(ISqrt(n))
        m == ISqrt(n \div (u * u))
        h == (2 * m + 1) * (2 * m + 1) * u * u
    IN  IF 4 * n < h THEN u * m
        ELSE IF 4 * n > h THEN u * (m + 1)
        ELSE u * (m + (m % 2))

Num(v) == [t |-> "num", v |-> v]
NaN == [t |-> "nan", v |-> 0]
None == [t |-> "none", v |-> 0]
Str == [t |-> "str", v |-> 0]

IsNaN(x) == x.t = "nan"

Add(x, y) == IF IsNaN(x) \/ IsNaN(y) THEN NaN ELSE Num(fadd(x.v, y.v))
Sub(x, y) == IF IsNaN(x) \/ IsNaN(y) THEN NaN ELSE Num(fsub(x.v, y.v))
Mul(x, y) == IF IsNaN(x) \/ IsNaN(y) THEN NaN ELSE Num(fmul(x.v, y.v))
Div(x, y) == IF IsNaN(x) \/ IsNaN(y) THEN NaN ELSE Num(fdiv(x.v, y.v))

\* ------------------------------------------------------------ pandas
\* pd.to_numeric(series, errors="coerce"): None and non-numeric strings are NaN.
to_numeric(c) == IF c.t = "num" THEN c ELSE NaN

fillna0(x) == IF IsNaN(x) THEN Num(0) ELSE x

to_numeric_series(s) == [i \in 1..Len(s) |-> to_numeric(s[i])]

\* Left-to-right sum of a float sequence (numpy's add.reduce below 8 items).
RECURSIVE SumSeq(_, _)
SumSeq(s, n) == IF n = 0 THEN Num(0) ELSE Add(SumSeq(s, n - 1), s[n])

Count(s) == Cardinality({i \in 1..Len(s) : ~IsNaN(s[i])})

\* Series.mean(): NaN skipped; the sum of the rest over their count.
Mean(s) ==
    IF Count(s) = 0 THEN NaN
    ELSE Div(SumSeq([i \in 1..Len(s) |-> fillna0(s[i])], Len(s)),
             Num(Count(s) * One))

\* Series.std(): sample standard deviation (ddof = 1), NaN skipped; NaN
\* with fewer than two values.
Std(s) ==
    IF Count(s) <= 1 THEN NaN
    ELSE LET avg == Mean(s)
             dev == [i \in 1..Len(s) |->
                        IF IsNaN(s[i]) THEN Num(0) ELSE Sub(avg, s[i])]
             sqr == [i \in 1..Len(s) |-> Mul(dev[i], dev[i])]
             var == Div(SumSeq(sqr, Len(s)), Num((Count(s) - 1) * One))
         IN  Num(fsqrt(var.v))

zscore(series) ==
    LET s == to_numeric_series(series)
        std == Std(s)
    IN  IF IsNaN(std) \/ std.v = 0
        THEN [i \in 1..Len(s) |-> Num(0)]
        ELSE [i \in 1..Len(s) |-> Div(Sub(s[i], Mean(s)), std)]

\* ------------------------------------------------------------ tables
\* A DataFrame: its column names, its rows in order (each a function from
\* column name to cell) and the index label of each row (a label stays with
\* its row through filtering).
TRADES == "Trades"
PROFIT == "Profit"
SHARPE == "Sharpe Ratio"
DRAWDOWN == "Equity DD %"
PARAM == "inpA"

Frame(cols, rows) ==
    [columns |-> cols, rows |-> rows, index |-> [i \in 1..Len(rows) |-> i]]

NRows(df) == Len(df.rows)

Column(df, c) == [i \in 1..NRows(df) |-> df.rows[i][c]]

\* Positions 1..n satisfying keep, in ascending order.
RECURSIVE Positions(_, _)
Positions(keep, n) ==
    IF n = 0 THEN <<>>
    ELSE IF n \in keep THEN Append(Positions(keep, n - 1), n)
    ELSE Positions(keep, n - 1)

\* df[mask]: the rows at the positions of keep, order and labels kept.
Take(df, keep) ==
    LET pos == Positions(keep, NRows(df))
    IN  [columns |-> df.columns,
         rows |-> [k \in 1..Len(pos) |-> df.rows[pos[k]]],
         index |-> [k \in 1..Len(pos) |-> df.index[pos[k]]]]

\* pd.to_numeric(df.get(c, 0), errors="coerce").fillna(0) for a column c of df.
numeric0(df, c) == [i \in 1..NRows(df) |-> fillna0(to_numeric(df.rows[i][c]))]

\* The same expression when c is no column of df: df.get returns the scalar
\* 0, pd.to_numeric returns the scalar unchanged, and an int has no fillna:
\* AttributeError.
get_raises(df, c) == c \notin df.columns

\* ------------------------------------------------------------ report.py
MetricKeys ==
    <<"profit", "drawdown", "sharpe_ratio", "profit_factor",
      "recovery_factor", "expected_payoff">>

KeySet == {MetricKeys[k] : k \in 1..Len(MetricKeys)}

METRIC_DEF ==
    [profit |-> "Profit", drawdown |-> "Equity DD %",
     sharpe_ratio |-> "Sharpe Ratio", profit_factor |-> "Profit Factor",
     recovery_factor |-> "Recovery Factor",
     expected_payoff |-> "Expected Payoff"]

DEFAULT_WEIGHTS ==
    [profit |-> Lit(30, 100), drawdown |-> Lit(-25, 100),
     sharpe_ratio |-> Lit(20, 100), profit_factor |-> Lit(10, 100),
     recovery_factor |-> Lit(10, 100), expected_payoff |-> Lit(5, 100)]

\* A filter that keeps the runs without trades (trades >= 0): not the code's.
filter_trades_keeps_zero(df) ==
    IF TRADES \in df.columns
    THEN Take(df, {i \in 1..NRows(df) : numeric0(df, TRADES)[i].v >= 0})
    ELSE df

\* generate_report, lines 235-237.
filter_trades(df) ==
    IF TRADES \in df.columns
    THEN Take(df, {i \in 1..NRows(df) : numeric0(df, TRADES)[i].v > 0})
    ELSE df

\* The z_ columns: one per metric whose source column is present.
add_z_scores(df) ==
    [k \in {key \in KeySet : METRIC_DEF[key] \in df.columns} |->
        zscore(Column(df, METRIC_DEF[k]))]

\* score after the first k keys of DEFAULT_WEIGHTS: score += weight * df[zcol].
RECURSIVE ScoreUpTo(_, _, _)
ScoreUpTo(z, n, k) ==
    IF k = 0 THEN [i \in 1..n |-> Num(0)]
    ELSE LET prev == ScoreUpTo(z, n, k - 1)
             key == MetricKeys[k]
         IN  IF key \in DOMAIN z
             THEN [i \in 1..n |->
                      Add(prev[i], Mul(Num(DEFAULT_WEIGHTS[key]), z[key][i]))]
             ELSE prev

compute_default_score(z, n) == ScoreUpTo(z, n, Len(MetricKeys))

\* The test of lines 121-126: row j dominates row i.
Dominated(p, s, d, i, j) ==
    /\ p[j].v >= p[i].v
    /\ s[j].v >= s[i].v
    /\ d[j].v <= d[i].v
    /\ (p[j].v > p[i].v \/ s[j].v > s[i].v \/ d[j].v < d[i].v)

\* The inner loop of lines 116-128 from j on: FALSE at the first j that
\* dominates i (break), TRUE when the scan ends.
RECURSIVE ScanFrom(_, _, _, _, _, _)
ScanFrom(p, s, d, n, i, j) ==
    IF j > n THEN TRUE
    ELSE IF j # i /\ Dominated(p, s, d, i, j) THEN FALSE
    ELSE ScanFrom(p, s, d, n, i, j + 1)

compute_pareto_raises(df) ==
    NRows(df) > 0 /\ \E c \in {PROFIT, SHARPE, DRAWDOWN} : get_raises(df, c)

compute_pareto(df) ==
    IF NRows(df) = 0 THEN <<>>
    ELSE LET p == numeric0(df, PROFIT)
             s == numeric0(df, SHARPE)
             d == numeric0(df, DRAWDOWN)
         IN  [i \in 1..NRows(df) |-> ScanFrom(p, s, d, NRows(df), i, 1)]

\* df.sort_values("Score_Weighted", ascending=False): the row positions in
\* an order of descending score, NaN last.  The default sort kind is not
\* stable, so rows of equal score (and the NaN rows) come in any order.
\* Row i may stand before row j: no NaN before a number, no smaller score
\* before a larger one.
MayPrecede(score, i, j) ==
    IsNaN(score[j]) \/ (~IsNaN(score[i]) /\ score[i].v >= score[j].v)

\* The orders of the rows 1..n, built by putting row n into an order of the
\* rows before it.
RECURSIVE OrdersUpTo(_, _)
OrdersUpTo(score, n) ==
    IF n = 0 THEN {<<>>}
    ELSE UNION {
            {SubSeq(o, 1, k) \o <<n>> \o SubSeq(o, k + 1, n - 1) :
                k \in {h \in 0..(n - 1) :
                          /\ \A a \in 1..h : MayPrecede(score, o[a], n)
                          /\ \A b \in (h + 1)..(n - 1) :
                                MayPrecede(score, n, o[b])}} :
            o \in OrdersUpTo(score, n - 1)}

SortedDesc(score) == OrdersUpTo(score, Len(score))

\* Series.idxmax() and idxmin() over the positions of cand: the first
\* position holding the largest (smallest) value.
idxmax(x, cand) ==
    CHOOSE i \in cand :
        /\ \A j \in cand : x[j].v <= x[i].v
        /\ \A j \in cand : x[j].v = x[i].v => i <= j

idxmin(x, cand) ==
    CHOOSE i \in cand :
        /\ \A j \in cand : x[j].v >= x[i].v
        /\ \A j \in cand : x[j].v = x[i].v => i <= j

Max(a, b) == IF a >= b THEN a ELSE b
Min(a, b) == IF a <= b THEN a ELSE b

\* The ascending sort of a sequence of numbers (ticks).
RECURSIVE Insert(_, _)
Insert(s, x) ==
    IF s = <<>> THEN <<x>>
    ELSE IF x <= Head(s) THEN <<x>> \o s
    ELSE <<Head(s)>> \o Insert(Tail(s), x)

RECURSIVE SortAsc(_)
SortAsc(s) == IF s = <<>> THEN <<>> ELSE Insert(SortAsc(Tail(s)), Head(s))

\* numpy's linear interpolation between a and b at t.
lerp(a, b, t) ==
    IF t >= One \div 2
    THEN fsub(b, fmul(fsub(b, a), fsub(One, t)))
    ELSE fadd(a, fmul(fsub(b, a), t))

\* Series.quantile(qn/4) of a non-empty sequence of numbers.
quantile(vals, qn) ==
    LET v == SortAsc(vals)
        n == Len(v)
        lo == ((n - 1) * qn) \div 4
        hi == Min(lo + 1, n - 1)
        t == Lit(((n - 1) * qn) % 4, 4)
    IN  lerp(v[lo + 1], v[hi + 1], t)

\* The non-NaN values of a numeric series, in order.
RECURSIVE dropna(_)
dropna(s) ==
    IF s = <<>> THEN <<>>
    ELSE IF IsNaN(Head(s)) THEN dropna(Tail(s))
    ELSE <<Head(s).v>> \o dropna(Tail(s))

param_cols(df) == IF PARAM \in df.columns THEN <<PARAM>> ELSE <<>>

\* Lines 201-208: one line per parameter with a numeric value in top_df.
RECURSIVE range_lines(_, _, _)
range_lines(df, top, k) ==
    IF k = 0 THEN <<>>
    ELSE LET p == param_cols(df)[k]
             vals == dropna([i \in 1..Len(top) |->
                                to_numeric(df.rows[top[i]][p])])
             rest == range_lines(df, top, k - 1)
         IN  IF Len(vals) = 0 THEN rest
             ELSE Append(rest, [name |-> p, q1 |-> quantile(vals, 1),
                                q3 |-> quantile(vals, 3)])

\* ------------------------------------------------ decimals, format_step
\* format_step compares with 1e-10 and rounds to decimal digits.  Its float
\* is held as a decimal of IntDigits digits before the point and DecDigits
\* after it, most significant first; values are not negative (the caller
\* passes the difference of two ascending values) and below 10^IntDigits.
IntDigits == 2
DecDigits == 11
Width == IntDigits + DecDigits

DZero == [i \in 1..Width |-> 0]

RECURSIVE Pow10(_)
Pow10(n) == IF n = 0 THEN 1 ELSE 10 * Pow10(n - 1)

\* The first n decimal digits of the fraction r / One.
RECURSIVE FracDigitsOf(_, _)
FracDigitsOf(r, n) ==
    IF n = 0 THEN <<>>
    ELSE <<(r * 10) \div One>> \o FracDigitsOf((r * 10) % One, n - 1)

\* The float of k >= 0 ticks as a decimal (exact while FracBits <= DecDigits).
dec_of_ticks(k) ==
    [i \in 1..IntDigits |-> ((k \div One) \div Pow10(IntDigits - i)) % 10]
        \o FracDigitsOf(k % One, DecDigits)

\* a < b.
DLess(a, b) ==
    \E i \in 1..Width : a[i] < b[i] /\ \A j \in 1..(i - 1) : a[j] = b[j]

\* The borrow digit i gives to the digits after it in a - b.
RECURSIVE Borrow(_, _, _)
Borrow(a, b, i) ==
    IF i = Width THEN 0
    ELSE IF a[i + 1] - Borrow(a, b, i + 1) < b[i + 1] THEN 1 ELSE 0

\* a - b for a >= b.
DSub(a, b) ==
    [i \in 1..Width |-> (a[i] - b[i] - Borrow(a, b, i) + 10) % 10]

\* abs(a - b).
DAbsDiff(a, b) == IF DLess(a, b) THEN DSub(b, a) ELSE DSub(a, b)

\* The digits of a after digit p against half a unit of digit p.
TailCmp(a, p) ==
    IF p = Width THEN "below"
    ELSE IF a[p + 1] > 5 THEN "above"
    ELSE IF a[p + 1] < 5 THEN "below"
    ELSE IF \A j \in (p + 2)..Width : a[j] = 0 THEN "half"
    ELSE "above"

Trunc(a, p) == [i \in 1..Width |-> IF i <= p THEN a[i] ELSE 0]

\* What digit i receives when one unit is added at digit p.
RECURSIVE Carry(_, _, _)
Carry(a, p, i) ==
    IF i > p THEN 0
    ELSE IF i = p THEN 1
    ELSE IF a[i + 1] + Carry(a, p, i + 1) > 9 THEN 1 ELSE 0

Inc(a, p) == [i \in 1..Width |-> (a[i] + Carry(a, p, i)) % 10]

\* round(value, digits) of a float: to the nearest, a tie to the even digit.
round_digits(value, digits) ==
    LET p == IntDigits + digits
        c == TailCmp(value, p)
        low == Trunc(value, p)
    IN  IF c = "above" \/ (c = "half" /\ value[p] % 2 = 1)
        THEN Inc(low, p)
        ELSE low

\* Line 66: range(0, 9); line 68: 1e-10; line 72: round(value, 6).
MaxDigits == 8
TolDigits == 10
FallbackDigits == 6

Tolerance == [i \in 1..Width |-> IF i = IntDigits + TolDigits THEN 1 ELSE 0]

\* A loop that accepts a difference equal to the tolerance and falls back to
\* 8 digits: not the code's.
RECURSIVE StepFrom_loose(_, _)
StepFrom_loose(value, digits) ==
    IF digits > MaxDigits THEN round_digits(value, MaxDigits)
    ELSE LET v == round_digits(value, digits)
         IN  IF ~DLess(Tolerance, DAbsDiff(v, value)) THEN v
             ELSE StepFrom_loose(value, digits + 1)

\* The loop of lines 66-69 from digits on, then line 72.
RECURSIVE StepFrom(_, _)
StepFrom(value, digits) ==
    IF digits > MaxDigits THEN round_digits(value, FallbackDigits)
    ELSE LET v == round_digits(value, digits)
         IN  IF DLess(DAbsDiff(v, value), Tolerance) THEN v
             ELSE StepFrom(value, digits + 1)

\* format_step(value) for a float value (line 263 is its only call).
format_step(value) == StepFrom(value, 0)

\* sorted(col.dropna().unique()) of the numbers vals.
unique_sorted(vals) ==
    LET S == {vals[i] : i \in DOMAIN vals}
    IN  CHOOSE q \in [1..Cardinality(S) -> S] :
            \A a, b \in 1..Cardinality(S) : a < b => q[a] < q[b]

\* Lines 259-272 for the parameter column p.
param_range(df, p) ==
    LET vals == unique_sorted(dropna([i \in 1..NRows(df) |->
                                         to_numeric(df.rows[i][p])]))
        n == Len(vals)
    IN  [name |-> p,
         min |-> IF n > 0 THEN Num(vals[1]) ELSE None,
         max |-> IF n > 0 THEN Num(vals[n]) ELSE None,
         step |-> IF n >= 2
                  THEN format_step(dec_of_ticks(fsub(vals[2], vals[1])))
                  ELSE DZero]

\* Lines 256-272: param_ranges.
param_ranges_of(df) ==
    [k \in 1..Len(param_cols(df)) |-> param_range(df, param_cols(df)[k])]

TopN == 10
TradesMin == 10

build_suggestion_cards_raises(df) ==
    NRows(df) > 0
    /\ \E c \in {PROFIT, SHARPE, DRAWDOWN, TRADES} : get_raises(df, c)

\* The cards for a df with its Score_Weighted column; order is the result of
\* sort_values.  A card of a row holds the row's index label.
build_suggestion_cards(df, score, order) ==
    IF NRows(df) = 0 THEN <<[title |-> "no data"]>>
    ELSE
    LET n == NRows(df)
        profit == numeric0(df, PROFIT)
        sharpe == numeric0(df, SHARPE)
        dd == numeric0(df, DRAWDOWN)
        trades == numeric0(df, TRADES)
        mask_aggr == {i \in 1..n : trades[i].v >= Lit(TradesMin, 1)}
        df_aggr == IF mask_aggr # {} THEN mask_aggr ELSE 1..n
        row_aggr == idxmax(profit, df_aggr)
        row_bal == order[1]
        mask_cons == {i \in 1..n : profit[i].v > 0 /\ sharpe[i].v > 0}
        df_cons == IF mask_cons # {} THEN mask_cons ELSE 1..n
        row_cons == idxmin(dd, df_cons)
        top_n == Max(TopN, n \div 5)
        top == SubSeq(order, 1, Min(top_n, n))
        lines == range_lines(df, top, Len(param_cols(df)))
    IN  << [title |-> "aggressive", row |-> df.index[row_aggr]],
           [title |-> "balanced", row |-> df.index[row_bal]],
           [title |-> "conservative", row |-> df.index[row_cons]],
           [title |-> "stable range",
            top |-> [i \in 1..Len(top) |-> df.index[top[i]]],
            lines |-> lines,
            body |-> IF lines # <<>> THEN "ranges" ELSE "fallback"] >>

\* generate_report(df, ...), with order the outcome of sort_values.  The
\* record holds the locals at the return or at the raise, and status says
\* whether the HTML file was written; what was not computed is <<>> or 0.
generate_report(input, order) ==
    LET df == filter_trades(input)
        n == NRows(df)
        z == add_z_scores(df)
        score == compute_default_score(z, n)
        base == [status |-> "raised", at |-> 0, df |-> df, z |-> z,
                 Score_Weighted |-> score, Is_Pareto |-> <<>>,
                 total_runs |-> 0, valid_count |-> 0, pareto_count |-> 0,
                 param_ranges |-> <<>>, suggestion_cards |-> <<>>]
    IN  IF compute_pareto_raises(df) THEN [base EXCEPT !.at = 246]
        ELSE
        LET flag == compute_pareto(df)
            withflag == [base EXCEPT !.Is_Pareto = flag]
        IN  IF get_raises(df, PROFIT) THEN [withflag EXCEPT !.at = 252]
            ELSE
            LET profit == numeric0(df, PROFIT)
                counted ==
                    [withflag EXCEPT
                        !.total_runs = n,
                        !.valid_count =
                            Cardinality({i \in 1..n : profit[i].v > 0}),
                        !.pareto_count =
                            Cardinality({i \in 1..n : flag[i]}),
                        !.param_ranges = param_ranges_of(df)]
            IN  IF build_suggestion_cards_raises(df)
                THEN [counted EXCEPT !.at = 276]
                ELSE [counted EXCEPT
                        !.status = "written",
                        !.suggestion_cards =
                            build_suggestion_cards(df, score, order)]

\* The score column generate_report sorts by, for its input.
default_score(input) ==
    LET df == filter_trades(input)
    IN  compute_default_score(add_z_scores(df), NRows(df))

\* ------------------------------------------------- the report page's script
\* const metricsConfig: the metrics whose source and z_ column are in df.
metricsConfig(rep) == DOMAIN rep.z

\* const rawData: df.to_dict(orient="records") through json.dumps and the
\* script's literal; row.score is undefined until recomputeScores runs.
rawData_of(rep) ==
    [i \in 1..NRows(rep.df) |->
        [idx |-> rep.df.index[i],
         z |-> [k \in DOMAIN rep.z |-> rep.z[k][i]],
         Score_Weighted |-> rep.Score_Weighted[i],
         Is_Pareto |-> rep.Is_Pareto[i],
         score |-> None]]

defaultWeights == [k \in KeySet |-> Num(DEFAULT_WEIGHTS[k])]

\* initWeightInputs: the input of a metric not in metricsConfig is set to 0
\* and disabled, the others show the weight.
initWeightInputs(cfg, w) == [k \in KeySet |-> IF k \in cfg THEN w[k] ELSE Num(0)]

\* Lines 558-563: weights[key] = isNaN(parseFloat(input.value)) ? 0 : v.
readWeights(inp) ==
    [k \in KeySet |-> IF inp[k].t = "num" THEN inp[k] ELSE Num(0)]

\* Lines 566-575 for one row, over the first k entries of METRIC_DEF that are
\* in metricsConfig: s += w * z unless z is NaN.
RECURSIVE rowScore(_, _, _, _)
rowScore(row, cfg, w, k) ==
    IF k = 0 THEN Num(0)
    ELSE LET s == rowScore(row, cfg, w, k - 1)
             key == MetricKeys[k]
         IN  IF key \in cfg /\ ~IsNaN(row.z[key])
             THEN Add(s, Mul(w[key], row.z[key]))
             ELSE s

\* A re-weighting pass that adds to the score of the pass before: not the
\* code's.
recomputeScores_accumulates(rows, cfg, w) ==
    [i \in 1..Len(rows) |->
        LET sc == rowScore(rows[i], cfg, w, Len(MetricKeys))
        IN  [rows[i] EXCEPT !.score = IF rows[i].score.t = "num"
                                      THEN Add(rows[i].score, sc) ELSE sc]]

\* A re-weighting pass that also stores the new score in Score_Weighted: not
\* the code's.
recomputeScores_overwrites(rows, cfg, w) ==
    [i \in 1..Len(rows) |->
        LET sc == rowScore(rows[i], cfg, w, Len(MetricKeys))
        IN  [rows[i] EXCEPT !.score = sc, !.Score_Weighted = sc]]

recomputeScores(rows, cfg, w) ==
    [i \in 1..Len(rows) |->
        [rows[i] EXCEPT !.score = rowScore(rows[i], cfg, w, Len(MetricKeys))]]

\* (row.score || 0) as the sort key of buildRankingTable.
scoreOrZero(row) == IF row.score.t = "num" THEN row.score.v ELSE 0

\* rawData.slice().sort((a, b) => (b.score || 0) - (a.score || 0)): the
\* positions 1..n in descending score, equal scores in their rawData order.
RECURSIVE InsertDesc(_, _, _)
InsertDesc(rows, s, i) ==
    IF s = <<>> THEN <<i>>
    ELSE IF scoreOrZero(rows[Head(s)]) >= scoreOrZero(rows[i])
         THEN <<Head(s)>> \o InsertDesc(rows, Tail(s), i)
         ELSE <<i>> \o s

RECURSIVE SortByScore(_, _)
SortByScore(rows, n) ==
    IF n = 0 THEN <<>> ELSE InsertDesc(rows, SortByScore(rows, n - 1), n)

RankTopN == 30

\* buildRankingTable: the index labels of the rows shown, in order.
buildRankingTable(rows, topN) ==
    LET o == SortByScore(rows, Len(rows))
        shown == IF topN > 0 THEN SubSeq(o, 1, Min(topN, Len(o))) ELSE o
    IN  [k \in 1..Len(shown) |-> rows[shown[k]].idx]

\* ------------------------------------------------- parser.py, analyze.py
MaxFiles == 2
MaxRuns == 2

\* The .xml files of mt5_xml are named by their rank in sorted order.
Stems == 1..MaxFiles

Absent == [kind |-> "absent"]

\* A file parse_xml raises on (no Worksheet, no Table, fewer than 2 rows).
Malformed == [kind |-> "malformed"]

XmlFile(t) == [kind |-> "table", table |-> t]

parse_xml_raises(f) == f.kind = "malformed"

parse_xml(f) == f.table

NoArtifact == [exists |-> FALSE, run |-> 0]

\* reports/<stem>.html as written by run number run (0: before the first).
Artifact(run) == [exists |-> TRUE, run |-> run]

\* A process_one without the test of lines 14-17, which regenerates the
\* report of a stem that has one: not the code's.
process_one_regenerates(fs, reps, stem, run, order) ==
    LET same == [reports |-> reps, raised |-> FALSE, parsed |-> FALSE,
                 wrote |-> FALSE]
    IN  IF fs[stem].kind = "absent" THEN same
        ELSE IF parse_xml_raises(fs[stem])
             THEN [same EXCEPT !.raised = TRUE, !.parsed = TRUE]
        ELSE IF generate_report(parse_xml(fs[stem]), order).status = "written"
             THEN [same EXCEPT !.reports = [reps EXCEPT ![stem] = Artifact(run)],
                               !.parsed = TRUE, !.wrote = TRUE]
        ELSE [same EXCEPT !.raised = TRUE, !.parsed = TRUE]

\* process_one(xml_path, reports_dir) in run number run: what it leaves in
\* reports, whether it raised, whether it called parse_xml, and whether it
\* wrote.
process_one(fs, reps, stem, run, order) ==
    LET same == [reports |-> reps, raised |-> FALSE, parsed |-> FALSE,
                 wrote |-> FALSE]
    IN  IF fs[stem].kind = "absent" THEN same
        ELSE IF reps[stem].exists THEN same
        ELSE IF parse_xml_raises(fs[stem])
             THEN [same EXCEPT !.raised = TRUE, !.parsed = TRUE]
        ELSE IF generate_report(parse_xml(fs[stem]), order).status = "written"
             THEN [same EXCEPT !.reports = [reps EXCEPT ![stem] = Artifact(run)],
                               !.parsed = TRUE, !.wrote = TRUE]
        ELSE [same EXCEPT !.raised = TRUE, !.parsed = TRUE]

\* The orders sort_values may return inside generate_report for a file.
OrdersOf(f) ==
    IF f.kind = "table" THEN SortedDesc(default_score(f.table)) ELSE {<<>>}

\* ------------------------------------------------------------------ state
VARIABLES
    arg, ret, called,          \* a function applied on its own: argument, result
    table, report,             \* generate_report: the parsed df, the outcome
    loaded, rawData, weights, inputs, rankTopN, ranking,   \* the open page
    files, reports, argv, input_dir, main_pc, xml_files, run, parsed, wrote

pureVars == <<arg, ret, called>>
reportVars == <<table, report>>
pageVars == <<loaded, rawData, weights, inputs, rankTopN, ranking>>
batchVars ==
    <<files, reports, argv, input_dir, main_pc, xml_files, run, parsed, wrote>>
vars == <<pureVars, reportVars, pageVars, batchVars>>

NoReport ==
    [status |-> "none", at |-> 0, df |-> Frame({}, <<>>), z |-> <<>>,
     Score_Weighted |-> <<>>, Is_Pareto |-> <<>>, total_runs |-> 0,
     valid_count |-> 0, pareto_count |-> 0, param_ranges |-> <<>>,
     suggestion_cards |-> <<>>]

NoResult == [raised |-> FALSE, value |-> <<>>]

PureIdle == arg = <<>> /\ ret = NoResult /\ called = "none"

ReportIdle == table = Frame({}, <<>>) /\ report = NoReport

PageIdle ==
    /\ loaded = FALSE
    /\ rawData = <<>>
    /\ weights = defaultWeights
    /\ inputs = [k \in KeySet |-> Str]
    /\ rankTopN = RankTopN
    /\ ranking = <<>>

BatchIdle ==
    /\ files = [s \in Stems |-> Absent]
    /\ reports = [s \in Stems |-> NoArtifact]
    /\ argv = 0
    /\ input_dir = FALSE
    /\ main_pc = "idle"
    /\ xml_files = <<>>
    /\ run = 1
    /\ parsed = {}
    /\ wrote = {}

\* ------------------------------------------------------------------ inputs
SeqsUpTo(S, n) == UNION {[1..k -> S] : k \in 0..n}

\* The rows over the columns cols whose cells come from dom[c].
RowsOver(cols, dom) ==
    {r \in [cols -> UNION {dom[c] : c \in cols}] : \A c \in cols : r[c] \in dom[c]}

\* table is a frame parse_xml can return with at most n rows: columns from
\* one of colsets; a file without data cells gives a frame without columns.
Parsed(t, colsets, dom, n) ==
    \E cols \in colsets, k \in 0..n :
        \E rows \in [1..k -> RowsOver(cols, dom)] :
            t = IF k = 0 THEN Frame({}, <<>>) ELSE Frame(cols, rows)

AllCols == {TRADES, PROFIT, SHARPE, DRAWDOWN, PARAM}

\* Every choice of the optional columns beside the parameter column.
ColumnSets == {cs \cup {PARAM} : cs \in SUBSET {TRADES, PROFIT, SHARPE, DRAWDOWN}}

N(n) == Num(Lit(n, 1))

\* Cells per column for the report generation runs.
ReportCells ==
    [c \in AllCols |->
        CASE c = TRADES -> {Str, N(0), N(12)}
          [] c = PROFIT -> {None, N(-1), N(2)}
          [] c = SHARPE -> {N(1)}
          [] c = DRAWDOWN -> {N(1), N(2)}
          [] OTHER -> {N(1)}]

\* Cells per column for the runs about the row filter.
FilterCells ==
    [c \in AllCols |->
        CASE c = TRADES -> {None, Str, N(-1), N(0), N(12)}
          [] c = PROFIT -> {N(1), N(2)}
          [] OTHER -> {N(1)}]

\* Cells per column for the runs about the parameter ranges: the parameter
\* takes values down to one tick.
RangeCells ==
    [c \in AllCols |->
        CASE c = PARAM ->
                {None, Str, N(10), N(20), N(30), Num(Lit(7, 4)), Num(1), Num(3)}
          [] c = TRADES -> {N(12)}
          [] OTHER -> {N(1)}]

\* A raw step for format_step on its own: an integer part, a run of equal
\* digits after the point, and possibly a last digit 1 of floating-point
\* noise at 1e-10 or at the last place.
StepInts == {0, 9, 10}
StepDigits == {0, 2, 5, 9}

StepValue(v) ==
    \E ip \in StepInts, c \in StepDigits, p \in 1..DecDigits,
       q \in 1..DecDigits, e \in {0, 1}, at \in {TolDigits, DecDigits} :
        /\ p <= q
        /\ v = [i \in 1..Width |->
                  IF i <= IntDigits THEN (ip \div Pow10(IntDigits - i)) % 10
                  ELSE IF i - IntDigits \in p..q THEN c
                  ELSE IF i - IntDigits = at THEN e
                  ELSE 0]

\* Cells per column for the runs about the cards: trade counts on both sides
\* of 10, profits and Sharpe ratios on both sides of 0.
CardCells ==
    [c \in AllCols |->
        CASE c = TRADES -> {N(5), N(12)}
          [] c = PROFIT -> {None, N(2)}
          [] c = SHARPE -> {N(-1), N(1)}
          [] c = DRAWDOWN -> {N(1), N(2)}
          [] OTHER -> {N(1)}]

\* Frames for the runs about the Stable Range card, of up to MaxTopRows rows
\* so that the top rows can be fewer than the rows: the profits are 1..n in
\* a rotated order, and the parameter is a number in every row, in no row or
\* in one row only.  With or without a Trades column.
MaxTopRows == 11

TopFrame(t) ==
    \E cols \in {AllCols, AllCols \ {TRADES}}, n \in 0..MaxTopRows :
        \E r \in 0..Max(n - 1, 0), pat \in 0..(n + 1) :
            t = Frame(cols,
                      [i \in 1..n |->
                          [c \in cols |->
                              CASE c = PROFIT -> N(((i + r) % n) + 1)
                                [] c = PARAM ->
                                     IF pat = n + 1 \/ pat = i
                                     THEN N((i % 3) + 1) ELSE Str
                                [] c = TRADES -> N(12)
                                [] OTHER -> N(1)]])

\* Cells per column for the runs of the page's events.
PageCells ==
    [c \in AllCols |->
        CASE c = TRADES -> {N(12)}
          [] c = PROFIT -> {None, N(1), N(2)}
          [] c = SHARPE -> {N(1)}
          [] c = DRAWDOWN -> {N(1)}
          [] OTHER -> {N(1)}]

\* Cells per column for compute_pareto on its own.
ParetoCells ==
    [c \in AllCols |->
        CASE c = PROFIT -> {Str, N(1), N(2)}
          [] c = SHARPE -> {None, N(1)}
          [] c = DRAWDOWN -> {N(1), N(2)}
          [] OTHER -> {N(1)}]

\* Any DataFrame over the parameter column and some of the objective
\* columns, rows or none.
ParetoFrame(t) ==
    \E cs \in SUBSET {PROFIT, SHARPE, DRAWDOWN}, k \in 0..MaxRows :
        \E rows \in [1..k -> RowsOver(cs \cup {PARAM}, ParetoCells)] :
            t = Frame(cs \cup {PARAM}, rows)

\* Cells of a metric column for zscore on its own (7/4 = 1.75).
SeriesCells == {None, Str, N(1), N(2), Num(Lit(7, 4))}

\* What the user can leave in a weight input: a number, or no number.
InputVals == {Str, N(1)}

OkTable ==
    Frame(AllCols, <<[c \in AllCols |-> IF c = TRADES THEN N(12) ELSE N(1)]>>)

FileContents == {Absent, Malformed, XmlFile(OkTable), XmlFile(Frame({}, <<>>))}

\* ----------------------------------------------------------------- actions
\* zscore(series) applied to arg.
Zscore ==
    /\ called = "none"
    /\ called' = "zscore"
    /\ ret' = [raised |-> FALSE, value |-> zscore(arg)]
    /\ UNCHANGED <<arg, reportVars, pageVars, batchVars>>

\* format_step(value) applied to arg.
FormatStep ==
    /\ called = "none"
    /\ Len(arg) = Width
    /\ called' = "format_step"
    /\ ret' = [raised |-> FALSE, value |-> format_step(arg)]
    /\ UNCHANGED <<arg, reportVars, pageVars, batchVars>>

\* compute_pareto(df) applied to arg.
ComputePareto ==
    /\ called = "none"
    /\ called' = "compute_pareto"
    /\ ret' = IF compute_pareto_raises(arg)
              THEN [raised |-> TRUE, value |-> <<>>]
              ELSE [raised |-> FALSE, value |-> compute_pareto(arg)]
    /\ UNCHANGED <<arg, reportVars, pageVars, batchVars>>

\* generate_report(df, param_cols, metric_cols, output_path, file_name).
GenerateReport ==
    /\ report.status = "none"
    /\ \E o \in SortedDesc(default_score(table)) :
          report' = generate_report(table, o)
    /\ UNCHANGED <<table, pureVars, pageVars, batchVars>>

\* The page's DOMContentLoaded handler (lines 686-690), the written report
\* opened in a browser.
DOMContentLoaded ==
    /\ report.status = "written"
    /\ ~loaded
    /\ LET cfg == metricsConfig(report)
           inp == initWeightInputs(cfg, weights)
           w == readWeights(inp)
           rows == recomputeScores(rawData_of(report), cfg, w)
       IN  /\ loaded' = TRUE
           /\ inputs' = inp
           /\ weights' = w
           /\ rawData' = rows
           /\ ranking' = buildRankingTable(rows, rankTopN)
    /\ UNCHANGED <<rankTopN, pureVars, reportVars, batchVars>>

\* The user types into an enabled weight input.
EditWeight ==
    /\ loaded
    /\ \E k \in metricsConfig(report), v \in InputVals :
          inputs' = [inputs EXCEPT ![k] = v]
    /\ UNCHANGED <<loaded, rawData, weights, rankTopN, ranking,
                   pureVars, reportVars, batchVars>>

\* Click on btn-recompute (lines 694-698).
ClickUpdate ==
    /\ loaded
    /\ LET w == readWeights(inputs)
           rows == recomputeScores(rawData, metricsConfig(report), w)
       IN  /\ weights' = w
           /\ rawData' = rows
           /\ ranking' = buildRankingTable(rows, rankTopN)
    /\ UNCHANGED <<loaded, inputs, rankTopN, pureVars, reportVars, batchVars>>

\* Click on btn-reset: resetWeights (lines 579-595).
ClickReset ==
    /\ loaded
    /\ LET inp == defaultWeights
           w == readWeights(inp)
           rows == recomputeScores(rawData, metricsConfig(report), w)
       IN  /\ inputs' = inp
           /\ weights' = w
           /\ rawData' = rows
           /\ ranking' = buildRankingTable(rows, rankTopN)
    /\ UNCHANGED <<loaded, rankTopN, pureVars, reportVars, batchVars>>

\* Click on btn-top30 (lines 713-716).
ClickTop30 ==
    /\ loaded
    /\ rankTopN' = RankTopN
    /\ ranking' = buildRankingTable(rawData, RankTopN)
    /\ UNCHANGED <<loaded, rawData, weights, inputs,
                   pureVars, reportVars, batchVars>>

\* Click on btn-all (lines 719-722).
ClickAll ==
    /\ loaded
    /\ rankTopN' = 0
    /\ ranking' = buildRankingTable(rawData, 0)
    /\ UNCHANGED <<loaded, rawData, weights, inputs,
                   pureVars, reportVars, batchVars>>

\* main after a call of process_one that returned r (an exception ends main).
AfterProcess(r, stem, next_pc, rest) ==
    /\ reports' = r.reports
    /\ parsed' = IF r.parsed THEN parsed \cup {<<run, stem>>} ELSE parsed
    /\ wrote' = IF r.wrote THEN wrote \cup {<<run, stem>>} ELSE wrote
    /\ main_pc' = IF r.raised THEN "raised" ELSE next_pc
    /\ xml_files' = IF r.raised THEN xml_files ELSE rest

Processed(stem, next_pc, rest) ==
    \E o \in OrdersOf(files[stem]) :
        AfterProcess(process_one(files, reports, stem, run, o),
                     stem, next_pc, rest)

\* main() up to the loop: single-file mode, or the scan of mt5_xml.
MainStart ==
    /\ main_pc = "idle"
    /\ IF argv # 0
       THEN Processed(argv, "returned", <<>>)
       ELSE /\ xml_files' = Positions({s \in Stems : files[s].kind # "absent"},
                                      MaxFiles)
            /\ main_pc' = IF input_dir /\ xml_files' # <<>>
                          THEN "loop" ELSE "returned"
            /\ UNCHANGED <<reports, parsed, wrote>>
    /\ UNCHANGED <<files, argv, input_dir, run, pureVars, reportVars, pageVars>>

\* One iteration of the loop of lines 52-53.
MainLoop ==
    /\ main_pc = "loop"
    /\ xml_files # <<>>
    /\ Processed(Head(xml_files), "loop", Tail(xml_files))
    /\ UNCHANGED <<files, argv, input_dir, run, pureVars, reportVars, pageVars>>

\* Line 55: the loop is through.
MainDone ==
    /\ main_pc = "loop"
    /\ xml_files = <<>>
    /\ main_pc' = "returned"
    /\ UNCHANGED <<files, reports, argv, input_dir, xml_files, run, parsed,
                   wrote, pureVars, reportVars, pageVars>>

\* The user runs analyze.py again over the same inputs.
RunAgain ==
    /\ main_pc \in {"returned", "raised"}
    /\ run < MaxRuns
    /\ run' = run + 1
    /\ main_pc' = "idle"
    /\ xml_files' = <<>>
    /\ UNCHANGED <<files, reports, argv, input_dir, parsed, wrote,
                   pureVars, reportVars, pageVars>>

\* ---------------------------------------------------------- specifications
\* generate_report on every parsed frame, and the page's first load.
Init ==
    /\ Parsed(table, ColumnSets, ReportCells, MaxRows)
    /\ report = NoReport
    /\ PureIdle /\ PageIdle /\ BatchIdle

Next == GenerateReport \/ DOMContentLoaded

Spec == Init /\ [][Next]_vars

\* The same over frames that vary the trade counts.
InitFilter ==
    /\ Parsed(table, {AllCols, AllCols \ {TRADES}}, FilterCells, MaxRows)
    /\ report = NoReport
    /\ PureIdle /\ PageIdle /\ BatchIdle

SpecFilter == InitFilter /\ [][Next]_vars

\* generate_report over frames that vary what the cards select by.
InitCards ==
    /\ Parsed(table, {AllCols, AllCols \ {TRADES}}, CardCells, MaxRows)
    /\ report = NoReport
    /\ PureIdle /\ PageIdle /\ BatchIdle

SpecCards == InitCards /\ [][Next]_vars

\* generate_report over frames with more rows than the Stable Range card
\* takes.
InitTop ==
    /\ TopFrame(table)
    /\ report = NoReport
    /\ PureIdle /\ PageIdle /\ BatchIdle

SpecTop == InitTop /\ [][GenerateReport]_vars

\* The parameter ranges: generate_report over frames that vary the
\* parameter, or format_step on its own.
InitRange ==
    /\ \/ /\ Parsed(table, {AllCols}, RangeCells, MaxRows)
          /\ PureIdle
       \/ /\ table = Frame({}, <<>>)
          /\ StepValue(arg)
          /\ ret = NoResult /\ called = "none"
    /\ report = NoReport
    /\ PageIdle /\ BatchIdle

NextRange == GenerateReport \/ FormatStep

SpecRange == InitRange /\ [][NextRange]_vars

\* The open page under the user's events, over frames whose rows differ in
\* profit.
InitPage ==
    /\ Parsed(table, {AllCols}, PageCells, MaxRows)
    /\ \A i, j \in 1..NRows(table) :
          i # j => table.rows[i][PROFIT] # table.rows[j][PROFIT]
    /\ report = NoReport
    /\ PureIdle /\ PageIdle /\ BatchIdle

NextPage ==
    \/ GenerateReport
    \/ DOMContentLoaded
    \/ EditWeight
    \/ ClickUpdate
    \/ ClickReset
    \/ ClickTop30
    \/ ClickAll

SpecPage == InitPage /\ [][NextPage]_vars

\* zscore on its own.
InitZ ==
    /\ arg \in SeqsUpTo(SeriesCells, MaxRows)
    /\ ret = NoResult /\ called = "none"
    /\ ReportIdle /\ PageIdle /\ BatchIdle

SpecZ == InitZ /\ [][Zscore]_vars

\* compute_pareto on its own.
InitPareto ==
    /\ ParetoFrame(arg)
    /\ ret = NoResult /\ called = "none"
    /\ ReportIdle /\ PageIdle /\ BatchIdle

SpecPareto == InitPareto /\ [][ComputePareto]_vars

\* The batch driver.
InitBatch ==
    /\ input_dir \in BOOLEAN
    /\ files \in [Stems -> FileContents]
    /\ ~input_dir => \A s \in Stems : files[s] = Absent
    /\ reports \in [Stems -> {NoArtifact, Artifact(0)}]
    /\ argv \in {0} \cup Stems
    /\ main_pc = "idle"
    /\ xml_files = <<>>
    /\ run = 1
    /\ parsed = {}
    /\ wrote = {}
    /\ PureIdle /\ ReportIdle /\ PageIdle

NextBatch == MainStart \/ MainLoop \/ MainDone \/ RunAgain

SpecBatch == InitBatch /\ [][NextBatch]_vars

\* ----------------------------------------------------------------- claims
\* An objective of a row as the specification reads it: the cell as a number,
\* and 0 for a cell or column that is missing or holds no number.
ObjectiveOf(row, c) ==
    IF c \in DOMAIN row /\ row[c].t = "num" THEN row[c].v ELSE 0

\* Row rj dominates row ri: no worse on profit, Sharpe and drawdown, and
\* strictly better on at least one of them.
DominatesRow(rj, ri) ==
    /\ ObjectiveOf(rj, PROFIT) >= ObjectiveOf(ri, PROFIT)
    /\ ObjectiveOf(rj, SHARPE) >= ObjectiveOf(ri, SHARPE)
    /\ ObjectiveOf(rj, DRAWDOWN) <= ObjectiveOf(ri, DRAWDOWN)
    /\ \/ ObjectiveOf(rj, PROFIT) > ObjectiveOf(ri, PROFIT)
       \/ ObjectiveOf(rj, SHARPE) > ObjectiveOf(ri, SHARPE)
       \/ ObjectiveOf(rj, DRAWDOWN) < ObjectiveOf(ri, DRAWDOWN)

NotDominated(df, i) ==
    ~\E j \in 1..NRows(df) \ {i} : DominatesRow(df.rows[j], df.rows[i])

\* C1: for every table passed to compute_pareto and every row i, compute_pareto
\* returns a flag for row i, and the flag is true if and only if no other row
\* j is at least as good on profit and Sharpe, at most as high on drawdown and
\* strictly better on one of the three, a missing or non-numeric objective
\* counting as 0.
C1_FlagIffNotDominated ==
    called = "compute_pareto" =>
        /\ ~ret.raised
        /\ Len(ret.value) = NRows(arg)
        /\ \A i \in 1..NRows(arg) : ret.value[i] <=> NotDominated(arg, i)

\* The same rule for the calls of compute_pareto that return.
FlagIffNotDominatedOnReturn ==
    (called = "compute_pareto" /\ ~ret.raised) =>
        /\ Len(ret.value) = NRows(arg)
        /\ \A i \in 1..NRows(arg) : ret.value[i] <=> NotDominated(arg, i)

\* C2: for a table with rows compute_pareto flags at least one row as
\* Pareto-true, and for a table without rows it returns no flags.
C2_FrontNotEmpty ==
    called = "compute_pareto" =>
        /\ NRows(arg) > 0 =>
              ~ret.raised /\ \E i \in DOMAIN ret.value : ret.value[i]
        /\ NRows(arg) = 0 => ~ret.raised /\ ret.value = <<>>

\* The front of the calls of compute_pareto that return.
FrontNotEmptyOnReturn ==
    (called = "compute_pareto" /\ ~ret.raised) =>
        /\ NRows(arg) > 0 => \E i \in DOMAIN ret.value : ret.value[i]
        /\ NRows(arg) = 0 => ret.value = <<>>

\* The rows the specification keeps: those whose trade count is a number
\* above 0, or all rows when there is no Trades column.
KeptLabels(t) ==
    IF TRADES \in t.columns
    THEN {i \in 1..NRows(t) :
            t.rows[i][TRADES].t = "num" /\ t.rows[i][TRADES].v > 0}
    ELSE 1..NRows(t)

ExpectedFiltered(t) ==
    LET pos == Positions(KeptLabels(t), NRows(t))
    IN  [columns |-> t.columns,
         rows |-> [k \in 1..Len(pos) |-> t.rows[pos[k]]],
         index |-> pos]

\* The index labels a card refers to.
CardLabels(card) ==
    IF card.title = "no data" THEN {}
    ELSE IF card.title = "stable range"
         THEN {card.top[k] : k \in 1..Len(card.top)}
    ELSE {card.row}

\* C3: in generate_report the filtered table holds exactly the rows of the
\* input whose trade count, coerced to a number with missing as 0, is above 0,
\* in their order; the z-scores, the default score, the Pareto flags, the
\* counters, the parameter ranges, the cards and the page's rows are those of
\* the filtered table;
\* and without a Trades column the filtered table is the input table.
C3_OnlyFilteredRows ==
    report.status # "none" =>
        LET df == ExpectedFiltered(table)
            n == NRows(df)
        IN  /\ report.df = df
            /\ TRADES \notin table.columns => report.df = table
            /\ report.z = add_z_scores(df)
            /\ report.Score_Weighted = compute_default_score(report.z, n)
            /\ report.at # 246 => Len(report.Is_Pareto) = n
            /\ report.at \notin {246, 252} =>
                  /\ report.total_runs = n
                  /\ report.valid_count <= n
                  /\ report.pareto_count <= n
            /\ report.at \notin {246, 252} =>
                  report.param_ranges = param_ranges_of(df)
            /\ \A k \in DOMAIN report.suggestion_cards :
                  CardLabels(report.suggestion_cards[k]) \subseteq KeptLabels(table)
            /\ loaded =>
                  [i \in DOMAIN rawData |-> rawData[i].idx] = df.index

\* A report written for a table that lost a run without trades and a run with
\* a trade count that is no number, and kept a run.
C3_Witness ==
    /\ report.status = "written"
    /\ loaded
    /\ TRADES \in table.columns
    /\ NRows(report.df) > 0
    /\ \E i \in 1..NRows(table) : table.rows[i][TRADES] = N(0)
    /\ \E i \in 1..NRows(table) : table.rows[i][TRADES] = Str

\* C4: the Score_Weighted of every row equals the score recomputeScores
\* gives the row under the default weights, a metric without a usable z-score
\* contributing 0.
C4_DefaultScoreIsPageScore ==
    loaded =>
        \A i \in DOMAIN rawData : rawData[i].score = rawData[i].Score_Weighted

\* The same for the rows whose z-scores are all numbers.
DefaultScoreIsPageScoreWithoutNaN ==
    loaded =>
        \A i \in DOMAIN rawData :
            (\A k \in DOMAIN rawData[i].z : ~IsNaN(rawData[i].z[k]))
                => rawData[i].score = rawData[i].Score_Weighted

\* The page's rows carry the flags, default scores and z-scores of the report.
PageKeepsReport ==
    /\ Len(rawData) = NRows(report.df)
    /\ \A i \in DOMAIN rawData :
          /\ rawData[i].Is_Pareto = report.Is_Pareto[i]
          /\ rawData[i].Score_Weighted = report.Score_Weighted[i]
          /\ rawData[i].z = [k \in DOMAIN report.z |-> report.z[k][i]]
          /\ rawData[i].idx = report.df.index[i]

\* C5: no event of the page (load, weight update, weight reset, top-30 and
\* show-all) changes a row's Is_Pareto, Score_Weighted or z_ columns, which
\* stay the values generate_report computed; a step of the page changes of a
\* row nothing but its score field.
C5_EventsKeepComputedColumns ==
    [][ /\ loaded' => PageKeepsReport'
        /\ loaded => report' = report /\ table' = table ]_vars

\* The page after a weight update that gave a row a score other than its
\* Score_Weighted, with all rows shown.
C5_Witness ==
    /\ loaded
    /\ rankTopN = 0
    /\ weights # readWeights(initWeightInputs(metricsConfig(report),
                                              defaultWeights))
    /\ \E i \in DOMAIN rawData :
          /\ rawData[i].score.t = "num"
          /\ rawData[i].Score_Weighted.t = "num"
          /\ rawData[i].score # rawData[i].Score_Weighted

\* C6: a step of main leaves every artifact that exists as it is, and in the
\* run of that step parses and generates nothing for its stem; a run after
\* the first generates nothing and leaves reports unchanged.
C6_ExistingArtifactKept ==
    [][ /\ \A s \in Stems :
              reports[s].exists =>
                  /\ reports'[s] = reports[s]
                  /\ <<run, s>> \notin (parsed' \ parsed)
                  /\ <<run, s>> \notin (wrote' \ wrote)
        /\ run > 1 => reports' = reports /\ wrote' = wrote ]_vars

\* A second batch run that returned, over a directory with a report from
\* before the first run and one the first run generated.
C6_Witness ==
    /\ run = 2
    /\ argv = 0
    /\ main_pc = "returned"
    /\ \E s \in Stems : reports[s] = Artifact(0) /\ files[s].kind = "table"
    /\ \E s \in Stems : reports[s] = Artifact(1)

\* A file process_one turns into a report when it is the only one.
Processable(f) ==
    /\ f.kind = "table"
    /\ \A o \in OrdersOf(f) : generate_report(f.table, o).status = "written"

\* C7: when a batch run of main over the input directory is over, every
\* enumerated .xml file that can be processed on its own has its artifact,
\* whatever happened while another file was processed.
C7_EveryInputHasArtifact ==
    (argv = 0 /\ input_dir /\ main_pc \in {"returned", "raised"}) =>
        \A s \in Stems : Processable(files[s]) => reports[s].exists

CardTitles(cards) == [k \in DOMAIN cards |-> cards[k].title]

\* C8: generate_report ends without an error; it builds the four cards
\* Aggressive, Balanced, Conservative and Stable Range for a filtered table
\* with rows, and for one without rows the single "no data" card, no Pareto
\* flags and counters of zero.
C8_CardsForEveryTable ==
    report.status # "none" =>
        /\ report.status = "written"
        /\ NRows(report.df) > 0 =>
              CardTitles(report.suggestion_cards)
                  = <<"aggressive", "balanced", "conservative", "stable range">>
        /\ NRows(report.df) = 0 =>
              /\ CardTitles(report.suggestion_cards) = <<"no data">>
              /\ report.Is_Pareto = <<>>
              /\ report.total_runs = 0
              /\ report.valid_count = 0
              /\ report.pareto_count = 0

\* The same for the reports that are written.
CardsForWrittenReport ==
    report.status = "written" =>
        /\ NRows(report.df) > 0 =>
              CardTitles(report.suggestion_cards)
                  = <<"aggressive", "balanced", "conservative", "stable range">>
        /\ NRows(report.df) = 0 =>
              /\ CardTitles(report.suggestion_cards) = <<"no data">>
              /\ report.Is_Pareto = <<>>
              /\ report.total_runs = 0
              /\ report.valid_count = 0
              /\ report.pareto_count = 0

\* The row with index label l has the largest Score_Weighted of rep: no row
\* has a larger one, and its score is a number when any row's is.
HasMaxScore(rep, l) ==
    \E p \in 1..NRows(rep.df) :
        /\ rep.df.index[p] = l
        /\ \A i \in 1..NRows(rep.df) :
              ~IsNaN(rep.Score_Weighted[i]) =>
                  /\ ~IsNaN(rep.Score_Weighted[p])
                  /\ rep.Score_Weighted[p].v >= rep.Score_Weighted[i].v

\* C9: for every filtered table with rows generate_report has a Balanced
\* card, and its row has the largest Score_Weighted of all rows.
C9_BalancedHasMaxScore ==
    (report.status # "none" /\ NRows(report.df) > 0) =>
        /\ Len(report.suggestion_cards) >= 2
        /\ report.suggestion_cards[2].title = "balanced"
        /\ HasMaxScore(report, report.suggestion_cards[2].row)

\* The same for the reports that are written.
BalancedHasMaxScoreWhenWritten ==
    (report.status = "written" /\ NRows(report.df) > 0) =>
        /\ report.suggestion_cards[2].title = "balanced"
        /\ HasMaxScore(report, report.suggestion_cards[2].row)

\* The positions of a series that hold a number.
NumericAt(series) == {i \in DOMAIN series : series[i].t = "num"}

\* C10: zscore returns 0 at every position of a series whose numbers are all
\* equal or that holds fewer than two numbers.
C10_ConstantColumnGivesZero ==
    (/\ called = "zscore"
     /\ \/ Cardinality(NumericAt(arg)) < 2
        \/ \A i, j \in NumericAt(arg) : arg[i].v = arg[j].v) =>
        ret.value = [i \in 1..Len(arg) |-> Num(0)]

\* The same for the series with fewer than two numbers.
FewValuesGiveZero ==
    (called = "zscore" /\ Cardinality(NumericAt(arg)) < 2) =>
        ret.value = [i \in 1..Len(arg) |-> Num(0)]

\* The raw step snapped as the specification says: rounded to the smallest
\* number of digits in 0..8 whose rounding is less than 1e-10 away from it,
\* and to 6 digits when there is none.
SnappedStep(raw) ==
    LET near == {d \in 0..8 :
                    DLess(DAbsDiff(round_digits(raw, d), raw), Tolerance)}
    IN  IF near = {} THEN round_digits(raw, 6)
        ELSE round_digits(raw, CHOOSE d \in near : \A e \in near : d <= e)

\* The distinct numbers of column c of df, in ticks.
NumbersOf(df, c) ==
    {df.rows[i][c].v : i \in {j \in 1..NRows(df) : df.rows[j][c].t = "num"}}

\* The range of the numbers S as the specification gives it.
RangeOf(S) ==
    IF S = {} THEN [min |-> None, max |-> None, step |-> DZero]
    ELSE LET lo == CHOOSE x \in S : \A y \in S : x <= y
             hi == CHOOSE x \in S : \A y \in S : x >= y
         IN  [min |-> Num(lo), max |-> Num(hi),
              step |-> IF Cardinality(S) < 2 THEN DZero
                       ELSE LET nxt == CHOOSE x \in S \ {lo} :
                                           \A y \in S \ {lo} : x <= y
                            IN  SnappedStep(dec_of_ticks(fsub(nxt, lo)))]

\* C11: the range summary of every parameter column has min the smallest and
\* max the largest distinct number of the column, and step 0 for fewer than
\* two distinct numbers, otherwise format_step of the second smallest minus
\* the smallest; format_step returns the raw step rounded to the smallest
\* number of digits in 0..8 whose rounding differs from it by less than
\* 1e-10, and rounded to 6 digits when there is no such number of digits.
C11_RangeAndStep ==
    /\ called = "format_step" => ret.value = SnappedStep(arg)
    /\ (report.status # "none" /\ report.at \notin {246, 252}) =>
          /\ Len(report.param_ranges) = Len(param_cols(report.df))
          /\ \A k \in DOMAIN report.param_ranges :
                LET r == report.param_ranges[k]
                    want == RangeOf(NumbersOf(report.df, r.name))
                IN  /\ r.name = param_cols(report.df)[k]
                    /\ r.min = want.min
                    /\ r.max = want.max
                    /\ r.step = want.step

\* format_step has snapped a raw step with noise below the tolerance to
\* fewer digits.
C11_Witness ==
    /\ called = "format_step"
    /\ arg[Width] = 1
    /\ ret.value[Width] = 0
    /\ \E i \in 1..(Width - 1) : ret.value[i] # 0

\* format_step found no number of digits within the tolerance and rounded to
\* 6 digits.
StepFallsBack ==
    /\ called = "format_step"
    /\ \A d \in 0..8 : ~DLess(DAbsDiff(round_digits(arg, d), arg), Tolerance)
    /\ ret.value # arg

\* A range summary with a step that is no whole number.
RangeWithStep ==
    /\ report.status = "written"
    /\ \E k \in DOMAIN report.param_ranges :
          /\ report.param_ranges[k].step # DZero
          /\ \E i \in (IntDigits + 1)..Width :
                report.param_ranges[k].step[i] # 0

\* The parameter values 10, 20, 30 summarised as min 10, max 30, step 10.
RangeOfTenTwentyThirty ==
    /\ report.status = "written"
    /\ NumbersOf(report.df, PARAM) = {Lit(10, 1), Lit(20, 1), Lit(30, 1)}
    /\ report.param_ranges[1].min = N(10)
    /\ report.param_ranges[1].max = N(30)
    /\ report.param_ranges[1].step = dec_of_ticks(Lit(10, 1))

\* The rows the Aggressive card chooses from: those with a trade count of at
\* least 10 when there is one, else all rows.
AggressiveCandidates(df) ==
    LET busy == {i \in 1..NRows(df) :
                    ObjectiveOf(df.rows[i], TRADES) >= Lit(10, 1)}
    IN  IF busy # {} THEN busy ELSE 1..NRows(df)

\* Label l is the first candidate row of the largest profit.
IsAggressiveRow(df, l) ==
    \E p \in AggressiveCandidates(df) :
        /\ df.index[p] = l
        /\ \A q \in AggressiveCandidates(df) :
              /\ ObjectiveOf(df.rows[q], PROFIT) <= ObjectiveOf(df.rows[p], PROFIT)
              /\ ObjectiveOf(df.rows[q], PROFIT) = ObjectiveOf(df.rows[p], PROFIT)
                    => p <= q

\* C12: for every filtered table with rows generate_report has an Aggressive
\* card; its row is taken from the rows with a trade count of at least 10
\* when there is one and from all rows otherwise, and is the first of the
\* candidates with the largest profit, a missing profit or trade count
\* counting as 0.
C12_AggressiveRow ==
    (report.status # "none" /\ NRows(report.df) > 0) =>
        /\ Len(report.suggestion_cards) >= 1
        /\ report.suggestion_cards[1].title = "aggressive"
        /\ IsAggressiveRow(report.df, report.suggestion_cards[1].row)

\* The same for the reports that are written.
AggressiveRowWhenWritten ==
    (report.status = "written" /\ NRows(report.df) > 0) =>
        /\ report.suggestion_cards[1].title = "aggressive"
        /\ IsAggressiveRow(report.df, report.suggestion_cards[1].row)

\* A written report whose Aggressive row is not the row of the largest
\* profit of the table, which has too few trades, and comes before a
\* candidate of equal profit.
AggressiveRowAmongBusy ==
    /\ report.status = "written"
    /\ \E p, q, r \in 1..NRows(report.df) :
          /\ report.df.index[p] = report.suggestion_cards[1].row
          /\ ObjectiveOf(report.df.rows[q], PROFIT)
                > ObjectiveOf(report.df.rows[p], PROFIT)
          /\ p < r
          /\ report.df.rows[r] = report.df.rows[p]

\* The rows the Conservative card chooses from: those with profit and Sharpe
\* ratio above 0 when there is one, else all rows.
ConservativeCandidates(df) ==
    LET sound == {i \in 1..NRows(df) :
                     /\ ObjectiveOf(df.rows[i], PROFIT) > 0
                     /\ ObjectiveOf(df.rows[i], SHARPE) > 0}
    IN  IF sound # {} THEN sound ELSE 1..NRows(df)

\* Label l is a candidate row of the smallest drawdown.
IsConservativeRow(df, l) ==
    \E p \in ConservativeCandidates(df) :
        /\ df.index[p] = l
        /\ \A q \in ConservativeCandidates(df) :
              ObjectiveOf(df.rows[p], DRAWDOWN) <= ObjectiveOf(df.rows[q], DRAWDOWN)

\* C13: for every filtered table with rows generate_report has a Conservative
\* card; its row is taken from the rows with profit above 0 and Sharpe ratio
\* above 0 when there is one and from all rows otherwise, and has the smallest
\* drawdown of the candidates, a missing value counting as 0.
C13_ConservativeRow ==
    (report.status # "none" /\ NRows(report.df) > 0) =>
        /\ Len(report.suggestion_cards) >= 3
        /\ report.suggestion_cards[3].title = "conservative"
        /\ IsConservativeRow(report.df, report.suggestion_cards[3].row)

\* The same for the reports that are written.
ConservativeRowWhenWritten ==
    (report.status = "written" /\ NRows(report.df) > 0) =>
        /\ report.suggestion_cards[3].title = "conservative"
        /\ IsConservativeRow(report.df, report.suggestion_cards[3].row)

\* A written report whose Conservative row has a larger drawdown than a row
\* that is no candidate.
ConservativeRowAmongSound ==
    /\ report.status = "written"
    /\ \E p, q \in 1..NRows(report.df) :
          /\ report.df.index[p] = report.suggestion_cards[3].row
          /\ ObjectiveOf(report.df.rows[q], DRAWDOWN)
                < ObjectiveOf(report.df.rows[p], DRAWDOWN)

\* The sum over the first n metrics of weight times standardized value, a
\* metric that is not active or has no standardized value adding 0.
RECURSIVE WeightedSum(_, _, _)
WeightedSum(row, w, n) ==
    IF n = 0 THEN Num(0)
    ELSE LET k == MetricKeys[n]
             term == IF k \in DOMAIN row.z /\ row.z[k].t = "num"
                     THEN Mul(w[k], row.z[k])
                     ELSE Num(0)
         IN  Add(WeightedSum(row, w, n - 1), term)

ScoreUnder(row, w) == WeightedSum(row, w, Len(MetricKeys))

ResetAfterUpdate ==
    /\ loaded
    /\ inputs = defaultWeights
    /\ weights = defaultWeights
    /\ NRows(report.df) = MaxRows

\* min(n, max(10, floor(n / 5))).
StableCount(n) ==
    LET m == IF n \div 5 > 10 THEN n \div 5 ELSE 10
    IN  IF m < n THEN m ELSE n

\* The score of row p is no lower than that of row q, a NaN score being the
\* lowest.
ScoreAtLeast(rep, p, q) ==
    \/ IsNaN(rep.Score_Weighted[q])
    \/ /\ ~IsNaN(rep.Score_Weighted[p])
       /\ rep.Score_Weighted[p].v >= rep.Score_Weighted[q].v

\* The card is the Stable Range card of rep: computed from StableCount(n)
\* rows that score no lower than the others, with a line for exactly the
\* parameters that have a number in those rows, and with the fallback message
\* when there is no line.
IsStableCard(rep, card) ==
    LET df == rep.df
        n == NRows(df)
        labels == {card.top[k] : k \in DOMAIN card.top}
        pos == {p \in 1..n : df.index[p] \in labels}
        named == {card.lines[k].name : k \in DOMAIN card.lines}
    IN  /\ card.title = "stable range"
        /\ Len(card.top) = StableCount(n)
        /\ Cardinality(pos) = StableCount(n)
        /\ \A p \in pos : \A q \in (1..n) \ pos : ScoreAtLeast(rep, p, q)
        /\ \A c \in {PARAM} \cap df.columns :
              c \in named <=> \E p \in pos : df.rows[p][c].t = "num"
        /\ named \subseteq df.columns
        /\ Len(card.lines) = Cardinality(named)
        /\ named = {} <=> card.body = "fallback"

\* C15: for every filtered table of n > 0 rows generate_report has a Stable
\* Range card computed from exactly the min(n, max(10, floor(n / 5))) rows of
\* the highest Score_Weighted; a parameter has a [Q1, Q3] line if and only if
\* it has a number in those rows, and the card carries the fallback message
\* when no parameter has a line.
C15_StableRange ==
    (report.status # "none" /\ NRows(report.df) > 0) =>
        /\ Len(report.suggestion_cards) >= 4
        /\ IsStableCard(report, report.suggestion_cards[4])

\* The same for the reports that are written.
StableRangeWhenWritten ==
    (report.status = "written" /\ NRows(report.df) > 0) =>
        IsStableCard(report, report.suggestion_cards[4])

\* A written report of more than 10 rows whose card takes 10 of them.
TopTenOfMore ==
    /\ report.status = "written"
    /\ NRows(report.df) > 10
    /\ Len(report.suggestion_cards[4].top) = 10
    /\ report.suggestion_cards[4].body = "ranges"

\* A written report whose only row with a number for the parameter is not
\* among the top rows: the card carries the fallback message.
FallbackOutsideTop ==
    /\ report.status = "written"
    /\ \E p \in 1..NRows(report.df) : report.df.rows[p][PARAM].t = "num"
    /\ report.suggestion_cards[4].body = "fallback"

=============================================================================
